---- MODULE Spec2Model ----
(***************************************************************************)
(* Family tree generation: Person, PersonFactory and FamilyTree.           *)
(*                                                                         *)
(* Person objects live in the heap `people`; an object's identity is its   *)
(* index in the heap.  Strings that the program compares or sorts (names,  *)
(* decade keys) are sequences of character codes.  Every call of the       *)
(* random module is an input of the operator that makes it, drawn by the   *)
(* calling action.                                                         *)
(***************************************************************************)
EXTENDS Integers, Sequences, FiniteSets, TLC

VARIABLES
    life_expectancy,        \* PersonFactory.life_expectancy: year -> tenths of a year
    birth_marriage_rates,   \* PersonFactory.birth_marriage_rates: decade -> birth rate in tenths
    people,                 \* the Person objects, by identity
    original_person1,       \* FamilyTree.original_person1
    original_person2,       \* FamilyTree.original_person2
    all_people,             \* FamilyTree.all_people
    people_by_birth_decade, \* FamilyTree.people_by_birth_decade
    people_alive_by_decade, \* FamilyTree.people_alive_by_decade
    queue,                  \* generate_tree: queue
    processed,              \* generate_tree: processed
    person,                 \* generate_tree: person
    elder_year,             \* generate_tree: elder_year
    num_children,           \* generate_tree: num_children
    children_birth_years,   \* generate_tree: children_birth_years
    child_index,            \* generate_tree: position of the for loop in children_birth_years
    duplicates,             \* the list returned by the last find_duplicate_names call
    output,                 \* main: the last menu choice and the lines it printed
    pc                      \* position of the program

vars == <<life_expectancy, birth_marriage_rates, people, original_person1, original_person2,
          all_people, people_by_birth_decade, people_alive_by_decade, queue, processed,
          person, elder_year, num_children, children_birth_years, child_index, duplicates,
          output, pc>>

----------------------------------------------------------------------------
(* Bounds of the model *)

\* the random draws are limited so that all_people never grows past MaxPeople
MaxPeople == 6
\* largest num_children given to distribute_birth_years in SpecDistribute
MaxCount == 7
\* largest population given to find_duplicate_names in SpecNames
MaxNames == 4
\* largest birth rate, in tenths, given to calculate_num_children in SpecNumChildren
MaxRate == 60

----------------------------------------------------------------------------
(* Program constants *)

None == 0
NoParents == <<>>
FounderYear == 1950
MaxYear == 2120

\* nothing has been chosen or printed at the menu of main
NoOutput == [choice |-> "", lines |-> <<>>]

Desmond == <<68, 101, 115, 109, 111, 110, 100>>
Molly == <<77, 111, 108, 108, 121>>
Jones == <<74, 111, 110, 101, 115>>
Smith == <<83, 109, 105, 116, 104>>

----------------------------------------------------------------------------
(* The data tables read by PersonFactory.read_files, and the values drawn   *)
(* from the random module                                                   *)

James == <<74, 97, 109, 101, 115>>
Mary == <<77, 97, 114, 121>>

\* every year of the decades 1950s to 2120s
Years == FounderYear..(MaxYear + 9)

\* life_expectancy.csv, in tenths of a year: a table of long lives (70.5 years)
LongLives == [y \in Years |-> 705]
\* life_expectancy.csv, in tenths of a year: a table of short lives (10.9 years)
ShortLives == [y \in Years |-> 109]

\* first_names.csv: the names of positive frequency of a decade and gender
first_names(decade, gender) == IF gender = "male" THEN {James} ELSE {Mary}

\* gender_name_probability.csv: the genders of positive probability of a decade
gender_probability(decade) == {"male", "female"}

\* last_names.csv with rank_to_probability.csv: the last names of positive weight of a decade
last_names_with_frequencies(decade) == {Smith}

\* random.randint(-10, 10) in get_year_died: the draws explored for the founders
VariationDraws == {-10, 10}
\* the draws explored for a child: the gender of assign_gender, the variation of
\* get_year_died and the last name of get_last_name
ChildDraws ==
    {[gender |-> "male", variation |-> -10, last_name |-> Jones],
     [gender |-> "female", variation |-> 10, last_name |-> Smith]}
\* the draws explored for a partner: the offset of create_partner, the gender of
\* assign_gender, the variation of get_year_died and the last name of get_last_name
PartnerDraws ==
    {[offset |-> -10, gender |-> "female", variation |-> 10, last_name |-> Smith],
     [offset |-> 10, gender |-> "male", variation |-> -10, last_name |-> Smith]}
\* random.randint(start_year, end_year) in distribute_birth_years: the draws explored
WindowDraws(start_year, end_year) == {start_year, start_year + 15, end_year}

----------------------------------------------------------------------------
(* utils.py *)

RECURSIVE Digits(_)
\* the decimal digits of n >= 0, as character codes (the formatting of an int in an f-string)
Digits(n) == IF n < 10 THEN <<48 + n>> ELSE Append(Digits(n \div 10), 48 + (n % 10))

RECURSIVE ParseInt(_)
\* int(s) of a string of decimal digits
ParseInt(s) ==
    IF Len(s) = 0 THEN 0
    ELSE 10 * ParseInt(SubSeq(s, 1, Len(s) - 1)) + (s[Len(s)] - 48)

get_decade_string(year) == Digits((year \div 10) * 10) \o <<115>>

----------------------------------------------------------------------------
(* person.py *)

Person(year_born, year_died, first_name, last_name, gender, parents) ==
    [year_born |-> year_born, year_died |-> year_died, first_name |-> first_name,
     last_name |-> last_name, gender |-> gender, partner |-> None,
     children |-> <<>>, parents |-> parents]

get_full_name(p) == p.first_name \o <<32>> \o p.last_name

set_first_name(heap, id, first_name) == [heap EXCEPT ![id].first_name = first_name]

set_last_name(heap, id, last_name) == [heap EXCEPT ![id].last_name = last_name]

set_partner(heap, id, partner) == [heap EXCEPT ![id].partner = partner]

\* add_child that appends the child twice
add_child_twice(heap, id, child) ==
    [heap EXCEPT ![id].children = Append(Append(@, child), child)]

add_child(heap, id, child) == [heap EXCEPT ![id].children = Append(@, child)]

----------------------------------------------------------------------------
(* person_factory.py *)

\* birth_and_marriage_rates.csv: the birth rate of each decade, in tenths (2.5 in the
\* 1950s, 1.0 after)
BirthRates ==
    [decade \in {get_decade_string(year) : year \in Years} |->
        IF decade = get_decade_string(FounderYear) THEN 25 ELSE 10]

\* self.factory.birth_marriage_rates[decade]['birth_rate']
birth_rate(decade) == birth_marriage_rates[decade]

\* variation is the value drawn by random.randint(-10, 10)
get_year_died(table, year_born, variation) ==
    LET expectancy == table[year_born] \div 10
        years_lived == expectancy + variation
    IN  year_born + years_lived

\* the names random.choices can return
get_first_name(year_born, gender) == first_names(get_decade_string(year_born), gender)

\* the names random.choice / random.choices can return
get_last_name(year_born, is_descendant, original_last_names) ==
    IF is_descendant
    THEN {original_last_names[i] : i \in DOMAIN original_last_names}
    ELSE last_names_with_frequencies(get_decade_string(year_born))

\* the genders random.choices can return
assign_gender(year_born) == gender_probability(get_decade_string(year_born))

\* variation, first_name and last_name are the values drawn in get_year_died,
\* get_first_name and get_last_name
create_person(table, year_born, gender, parents, variation, first_name, last_name) ==
    Person(year_born, get_year_died(table, year_born, variation), first_name, last_name,
           gender, parents)

\* random.random() < marriage_rate, for a marriage rate strictly between 0 and 1
should_have_partner(year_born) == BOOLEAN

\* the birth year create_partner draws for the partner; offset is random.randint(-10, 10)
partner_year_born(heap, id, offset) == heap[id].year_born + offset

\* create_partner without partner.set_partner(person)
create_partner_one_way(table, heap, id, offset, gender, variation, first_name, last_name) ==
    LET year == partner_year_born(heap, id, offset)
        new == Len(heap) + 1
        partner == create_person(table, year, gender, NoParents, variation, first_name,
                                 last_name)
    IN  IF year > MaxYear
        THEN [heap |-> heap, partner |-> None]
        ELSE [heap |-> set_partner(Append(heap, partner), id, new), partner |-> new]

\* create_partner(person = id, ...): the heap after the call and the object returned;
\* offset, gender, variation, first_name and last_name are the values drawn
create_partner(table, heap, id, offset, gender, variation, first_name, last_name) ==
    LET year == partner_year_born(heap, id, offset)
        new == Len(heap) + 1
        partner == create_person(table, year, gender, NoParents, variation, first_name,
                                 last_name)
    IN  IF year > MaxYear
        THEN [heap |-> heap, partner |-> None]
        ELSE [heap |-> set_partner(set_partner(Append(heap, partner), id, new), new, id),
              partner |-> new]

----------------------------------------------------------------------------
(* family_tree.py *)

Min(a, b) == IF a < b THEN a ELSE b
Max(a, b) == IF a > b THEN a ELSE b

\* math.ceil of a value given in tenths
Ceil(tenths) == -((-tenths) \div 10)

\* _add_to_decade that appends only to a list that exists already
_add_to_decade_else_append(by_decade, heap, id) ==
    LET decade == get_decade_string(heap[id].year_born)
    IN  IF decade \notin DOMAIN by_decade
        THEN by_decade @@ (decade :> <<>>)
        ELSE [by_decade EXCEPT ![decade] = Append(@, id)]

_add_to_decade(by_decade, heap, id) ==
    LET decade == get_decade_string(heap[id].year_born)
    IN  IF decade \notin DOMAIN by_decade
        THEN by_decade @@ (decade :> <<id>>)
        ELSE [by_decade EXCEPT ![decade] = Append(@, id)]

\* tree is the pair of all_people and people_by_birth_decade
add_person(tree, heap, id) ==
    [all_people |-> Append(tree.all_people, id),
     people_by_birth_decade |-> _add_to_decade(tree.people_by_birth_decade, heap, id)]

min_children(year_born) == Max(0, Ceil(birth_rate(get_decade_string(year_born)) - 15))

max_children(year_born) == Ceil(birth_rate(get_decade_string(year_born)) + 15)

\* calculate_num_children with num_children - 1 for a single parent, not floored at 0
calculate_num_children_unfloored(year_born, has_partner, drawn) ==
    IF ~has_partner THEN drawn - 1 ELSE drawn

\* drawn is the value of random.randint(min_children, max_children)
calculate_num_children(year_born, has_partner, drawn) ==
    IF ~has_partner THEN Max(0, drawn - 1) ELSE drawn

\* distribute_birth_years with a window that starts at parent_year_born + 20
distribute_birth_years_from20(parent_year_born, count, drawn) ==
    IF count = 0 THEN <<>>
    ELSE LET start_year == parent_year_born + 20
             end_year == parent_year_born + 45
         IN  IF count = 1 THEN <<drawn>>
             ELSE [k \in 1..count |->
                     (start_year * (count - 1) + (k - 1) * (end_year - start_year))
                         \div (count - 1)]

\* distribute_birth_years with a window that starts at parent_year_born + 10
distribute_birth_years_from10(parent_year_born, count, drawn) ==
    IF count = 0 THEN <<>>
    ELSE LET start_year == parent_year_born + 10
             end_year == parent_year_born + 45
         IN  IF count = 1 THEN <<drawn>>
             ELSE [k \in 1..count |->
                     (start_year * (count - 1) + (k - 1) * (end_year - start_year))
                         \div (count - 1)]

\* distribute_birth_years with step = (end_year - start_year) / num_children
distribute_birth_years_step(parent_year_born, count, drawn) ==
    IF count = 0 THEN <<>>
    ELSE LET start_year == parent_year_born + 25
             end_year == parent_year_born + 45
         IN  IF count = 1 THEN <<drawn>>
             ELSE [k \in 1..count |->
                     (start_year * count + (k - 1) * (end_year - start_year)) \div count]

\* drawn is the value of random.randint(start_year, end_year), used for a single child;
\* step is the fraction (end_year - start_year) / (num_children - 1), and int() of
\* start_year + i * step is taken over the common denominator
distribute_birth_years(parent_year_born, count, drawn) ==
    IF count = 0 THEN <<>>
    ELSE LET start_year == parent_year_born + 25
             end_year == parent_year_born + 45
         IN  IF count = 1 THEN <<drawn>>
             ELSE [k \in 1..count |->
                     (start_year * (count - 1) + (k - 1) * (end_year - start_year))
                         \div (count - 1)]

\* the inner loop of build_people_alive_by_decade stopped after its first iteration
register_alive_birth_decade(alive, id, decade_num, stop) ==
    IF decade_num >= stop THEN alive
    ELSE LET decade_str == Digits(decade_num) \o <<115>>
         IN  IF decade_str \notin DOMAIN alive
             THEN alive @@ (decade_str :> <<id>>)
             ELSE [alive EXCEPT ![decade_str] = Append(@, id)]

RECURSIVE register_alive(_, _, _, _)
\* for decade_num in range(decade_num, stop, 10): append the person to the decade's list
register_alive(alive, id, decade_num, stop) ==
    IF decade_num >= stop THEN alive
    ELSE LET decade_str == Digits(decade_num) \o <<115>>
             next == IF decade_str \notin DOMAIN alive
                     THEN alive @@ (decade_str :> <<id>>)
                     ELSE [alive EXCEPT ![decade_str] = Append(@, id)]
         IN  register_alive(next, id, decade_num + 10, stop)

RECURSIVE build_people_alive_by_decade(_, _, _, _)
\* the loop over all_people from position i on
build_people_alive_by_decade(alive, heap, all, i) ==
    IF i > Len(all) THEN alive
    ELSE LET birth_decade == get_decade_string(heap[all[i]].year_born)
             death_decade == get_decade_string(heap[all[i]].year_died)
             birth_decade_num == ParseInt(SubSeq(birth_decade, 1, Len(birth_decade) - 1))
             death_decade_num == ParseInt(SubSeq(death_decade, 1, Len(death_decade) - 1))
         IN  build_people_alive_by_decade(
                 register_alive(alive, all[i], birth_decade_num, death_decade_num + 10),
                 heap, all, i + 1)

get_total_count == Len(all_people)

get_birth_count_by_decade ==
    [decade \in DOMAIN people_by_birth_decade |-> Len(people_by_birth_decade[decade])]

get_alive_count_by_decade ==
    [decade \in DOMAIN people_alive_by_decade |-> Len(people_alive_by_decade[decade])]

RECURSIVE LexLess(_, _)
\* a < b for Python strings: by code point, a proper prefix first
LexLess(a, b) ==
    IF Len(b) = 0 THEN FALSE
    ELSE IF Len(a) = 0 THEN TRUE
    ELSE IF a[1] # b[1] THEN a[1] < b[1]
    ELSE LexLess(Tail(a), Tail(b))

RECURSIVE insert_sorted(_, _)
insert_sorted(sorted, name) ==
    IF sorted = <<>> THEN <<name>>
    ELSE IF LexLess(name, Head(sorted)) THEN <<name>> \o sorted
    ELSE <<Head(sorted)>> \o insert_sorted(Tail(sorted), name)

RECURSIVE sort(_)
\* list.sort() of a list of strings
sort(names) ==
    IF names = <<>> THEN <<>>
    ELSE insert_sorted(sort(SubSeq(names, 1, Len(names) - 1)), names[Len(names)])

RECURSIVE count_names(_, _, _, _)
\* the first loop of find_duplicate_names from position i on; name_counts is the dict
\* as the list of its [name, count] entries in insertion order
count_names(name_counts, heap, all, i) ==
    IF i > Len(all) THEN name_counts
    ELSE LET full_name == get_full_name(heap[all[i]])
             at == {k \in DOMAIN name_counts : name_counts[k].name = full_name}
         IN  count_names(
                 IF at # {}
                 THEN [k \in DOMAIN name_counts |->
                         IF k \in at
                         THEN [name |-> full_name, count |-> name_counts[k].count + 1]
                         ELSE name_counts[k]]
                 ELSE Append(name_counts, [name |-> full_name, count |-> 1]),
                 heap, all, i + 1)

RECURSIVE collect_duplicates(_, _)
\* the second loop of find_duplicate_names from entry i on
collect_duplicates(name_counts, i) ==
    IF i > Len(name_counts) THEN <<>>
    ELSE (IF name_counts[i].count > 1 THEN <<name_counts[i].name>> ELSE <<>>)
             \o collect_duplicates(name_counts, i + 1)

\* find_duplicate_names without duplicates.sort()
find_duplicate_names_unsorted(heap, all) ==
    collect_duplicates(count_names(<<>>, heap, all, 1), 1)

find_duplicate_names(heap, all) ==
    sort(collect_duplicates(count_names(<<>>, heap, all, 1), 1))

----------------------------------------------------------------------------
(* FamilyTree.__init__ and generate_tree *)

\* _initialize_original_people without the four calls that set the names
_initialize_original_people_unnamed(created1, created2) ==
    LET h0 == <<created1, created2>>
        h3 == set_partner(set_partner(h0, 1, 2), 2, 1)
        t0 == [all_people |-> <<>>, people_by_birth_decade |-> <<>>]
    IN  [heap |-> h3, tree |-> add_person(add_person(t0, h3, 1), h3, 2)]

\* the objects after _initialize_original_people, given the two Person objects that
\* create_person returned: the heap and the pair of all_people and people_by_birth_decade
_initialize_original_people(created1, created2) ==
    LET h0 == <<created1, created2>>
        h1 == set_last_name(set_first_name(h0, 1, Desmond), 1, Jones)
        h2 == set_last_name(set_first_name(h1, 2, Molly), 2, Smith)
        h3 == set_partner(set_partner(h2, 1, 2), 2, 1)
        t0 == [all_people |-> <<>>, people_by_birth_decade |-> <<>>]
    IN  [heap |-> h3, tree |-> add_person(add_person(t0, h3, 1), h3, 2)]

\* the state after FamilyTree(factory), for a factory whose life_expectancy is table
Constructed(table) ==
    \E variation1, variation2 \in VariationDraws :
    \E first1 \in get_first_name(FounderYear, "male") :
    \E first2 \in get_first_name(FounderYear, "female") :
    \E last1 \in get_last_name(FounderYear, FALSE, <<Jones, Smith>>) :
    \E last2 \in get_last_name(FounderYear, FALSE, <<Jones, Smith>>) :
        LET created1 == create_person(table, FounderYear, "male", NoParents, variation1,
                                      first1, last1)
            created2 == create_person(table, FounderYear, "female", NoParents, variation2,
                                      first2, last2)
            made == _initialize_original_people(created1, created2)
        IN  /\ life_expectancy = table
            /\ birth_marriage_rates = BirthRates
            /\ output = NoOutput
            /\ people = made.heap
            /\ original_person1 = 1
            /\ original_person2 = 2
            /\ all_people = made.tree.all_people
            /\ people_by_birth_decade = made.tree.people_by_birth_decade
            /\ people_alive_by_decade = <<>>
            /\ queue = <<>>
            /\ processed = {}
            /\ person = None
            /\ elder_year = 0
            /\ num_children = 0
            /\ children_birth_years = <<>>
            /\ child_index = 0
            /\ duplicates = <<>>
            /\ pc = "constructed"

Init == Constructed(LongLives)

original_last_names ==
    <<people[original_person1].last_name, people[original_person2].last_name>>

\* person = queue[0]: the queue keeps its first element
popleft_peek(q) == q

\* the test that skips a child, with 2125 for 2120
beyond_max_year_2125(birth_year) == birth_year > MaxYear + 5

\* the end of an iteration of the for loop with nothing appended to the queue
enqueue_nothing(q, child, child_partner) == q

\* the end of an iteration of the for loop with the child's partner appended as well
enqueue_partner_too(q, child, child_partner) ==
    IF child_partner # None THEN Append(Append(q, child), child_partner) ELSE Append(q, child)

\* the end of an iteration of the for loop with queue.appendleft(child)
enqueue_left(q, child, child_partner) == <<child>> \o q

\* queue.append(child) at the end of an iteration of the for loop; child_partner is the
\* partner created for the child in that iteration, or None: it is not appended
enqueue(q, child, child_partner) == Append(q, child)

\* queue.popleft(): the queue left behind
popleft(q) == Tail(q)

\* the test that skips a child
beyond_max_year(birth_year) == birth_year > MaxYear

\* the birth years from position i on for which a child is created
Creating(birth_years, i) ==
    {k \in DOMAIN birth_years : k >= i /\ ~beyond_max_year(birth_years[k])}

\* the end of one iteration of the for loop
NextChild ==
    IF child_index < Len(children_birth_years)
    THEN child_index' = child_index + 1 /\ pc' = "children"
    ELSE child_index' = child_index /\ pc' = "loop"

\* generate_tree up to the while loop
StartGenerate ==
    /\ pc = "constructed"
    /\ queue' = <<original_person1>>
    /\ processed' = {}
    /\ pc' = "loop"
    /\ UNCHANGED <<life_expectancy, birth_marriage_rates, output, people,
                   original_person1, original_person2, all_people,
                   people_by_birth_decade, people_alive_by_decade, person, elder_year,
                   num_children, children_birth_years, child_index, duplicates>>

\* one iteration of the while loop, up to the for loop
Expand ==
    /\ pc = "loop"
    /\ queue # <<>>
    /\ person' = Head(queue)
    /\ queue' = popleft(queue)
    /\ IF Head(queue) \in processed
       THEN UNCHANGED <<processed, elder_year, num_children, children_birth_years,
                        child_index, pc>>
       ELSE /\ processed' = processed \cup {Head(queue)}
            /\ LET partner == people[Head(queue)].partner
                   has_partner == partner # None
                   year_born == people[Head(queue)].year_born
                   elder == IF has_partner
                            THEN Min(year_born, people[partner].year_born)
                            ELSE year_born
               IN  \E drawn \in min_children(year_born)..max_children(year_born) :
                       LET n == calculate_num_children(year_born, has_partner, drawn)
                       IN  /\ num_children' = n
                           /\ IF n = 0
                              THEN UNCHANGED <<elder_year, children_birth_years, child_index,
                                               pc>>
                              ELSE \E year \in WindowDraws(elder + 25, elder + 45) :
                                       LET birth_years == distribute_birth_years(elder, n, year)
                                       IN  /\ Len(all_people)
                                                + Cardinality(Creating(birth_years, 1))
                                                <= MaxPeople
                                           /\ elder_year' = elder
                                           /\ children_birth_years' = birth_years
                                           /\ child_index' = 1
                                           /\ pc' = "children"
    /\ UNCHANGED <<life_expectancy, birth_marriage_rates, output, people,
                   original_person1, original_person2, all_people,
                   people_by_birth_decade, people_alive_by_decade, duplicates>>

\* one iteration of the for loop: the birth year is beyond MaxYear
SkipChild ==
    /\ pc = "children"
    /\ beyond_max_year(children_birth_years[child_index])
    /\ NextChild
    /\ UNCHANGED <<life_expectancy, birth_marriage_rates, output, people,
                   original_person1, original_person2, all_people,
                   people_by_birth_decade, people_alive_by_decade, queue, processed, person,
                   elder_year, num_children, children_birth_years, duplicates>>

\* one iteration of the for loop: a child is created, and perhaps a partner for it
CreateChild ==
    /\ pc = "children"
    /\ ~beyond_max_year(children_birth_years[child_index])
    /\ LET birth_year == children_birth_years[child_index]
           partner == people[person].partner
           has_partner == partner # None
           parents == IF has_partner THEN <<person, partner>> ELSE <<person, None>>
           child == Len(people) + 1
       IN  \E c \in ChildDraws :
           \E first_name \in get_first_name(birth_year, c.gender) :
               LET created == create_person(life_expectancy, birth_year, c.gender, parents,
                                            c.variation, first_name, c.last_name)
                   h1 == add_child(Append(people, created), person, child)
                   h2 == IF has_partner THEN add_child(h1, partner, child) ELSE h1
                   t1 == add_person([all_people |-> all_people,
                                     people_by_birth_decade |-> people_by_birth_decade],
                                    h2, child)
               IN  /\ c.gender \in assign_gender(birth_year)
                   /\ c.last_name \in get_last_name(birth_year, TRUE, original_last_names)
                   /\ \E marry \in should_have_partner(birth_year) :
                          IF marry
                          THEN \E p \in PartnerDraws :
                               \E partner_first \in
                                      get_first_name(partner_year_born(h2, child, p.offset),
                                                     p.gender) :
                                   LET out == create_partner(life_expectancy, h2, child,
                                                  p.offset, p.gender, p.variation,
                                                  partner_first, p.last_name)
                                       t2 == IF out.partner # None
                                             THEN add_person(t1, out.heap, out.partner)
                                             ELSE t1
                                   IN  /\ out.partner # None =>
                                            /\ p.gender \in assign_gender(
                                                   partner_year_born(h2, child, p.offset))
                                            /\ p.last_name \in get_last_name(
                                                   partner_year_born(h2, child, p.offset),
                                                   FALSE, <<>>)
                                       /\ Len(t2.all_people)
                                            + Cardinality(Creating(children_birth_years,
                                                                   child_index + 1))
                                            <= MaxPeople
                                       /\ people' = out.heap
                                       /\ all_people' = t2.all_people
                                       /\ people_by_birth_decade' = t2.people_by_birth_decade
                                       /\ queue' = enqueue(queue, child, out.partner)
                          ELSE /\ people' = h2
                               /\ all_people' = t1.all_people
                               /\ people_by_birth_decade' = t1.people_by_birth_decade
                               /\ queue' = enqueue(queue, child, None)
    /\ NextChild
    /\ UNCHANGED <<life_expectancy, birth_marriage_rates, output, original_person1,
                   original_person2,
                   people_alive_by_decade, processed, person, elder_year, num_children,
                   children_birth_years, duplicates>>

\* the queue is empty: build_people_alive_by_decade, and generate_tree returns
Finish ==
    /\ pc = "loop"
    /\ queue = <<>>
    /\ people_alive_by_decade' =
           build_people_alive_by_decade(people_alive_by_decade, people, all_people, 1)
    /\ pc' = "done"
    /\ UNCHANGED <<life_expectancy, birth_marriage_rates, output, people,
                   original_person1, original_person2, all_people,
                   people_by_birth_decade, queue, processed, person, elder_year,
                   num_children, children_birth_years, child_index, duplicates>>

Next == StartGenerate \/ Expand \/ SkipChild \/ CreateChild \/ Finish

Spec == Init /\ [][Next]_vars

\* the same program with a life_expectancy table of short lives
SpecShortLives == Constructed(ShortLives) /\ [][Next]_vars

----------------------------------------------------------------------------
(* main.py: the menu loop that follows generate_tree *)

\* the attributes of a FamilyTree object: the fields set by __init__ and the methods
FamilyTreeAttributes ==
    {"factory", "original_person1", "original_person2", "all_people",
     "people_by_birth_decade", "people_alive_by_decade", "_initialize_original_people",
     "_add_to_decade", "add_person", "calculate_num_children", "distribute_birth_years",
     "build_people_alive_by_decade", "generate_tree", "get_total_count",
     "get_birth_count_by_decade", "get_alive_count_by_decade", "find_duplicate_names"}

\* tree.name(): the value returned by a query method of FamilyTree
query(name) ==
    CASE name = "get_total_count" -> get_total_count
      [] name = "get_birth_count_by_decade" -> get_birth_count_by_decade
      [] name = "get_alive_count_by_decade" -> get_alive_count_by_decade
      [] name = "find_duplicate_names" -> find_duplicate_names(people, all_people)

RECURSIVE sorted(_)
\* sorted(keys) of a set of strings
sorted(keys) ==
    IF keys = {} THEN <<>>
    ELSE LET key == CHOOSE key \in keys : TRUE
         IN  insert_sorted(sorted(keys \ {key}), key)

\* generate_tree has returned and main is at the menu prompt
AtMenu == pc \in {"done", "menu"}

\* choice T: show_total prints the total
show_total ==
    /\ AtMenu
    /\ IF "get_total_count" \in FamilyTreeAttributes
       THEN /\ output' = [choice |-> "T", lines |-> <<query("get_total_count")>>]
            /\ pc' = "menu"
       ELSE /\ output' = [choice |-> "T", lines |-> <<>>]
            /\ pc' = "AttributeError"
    /\ UNCHANGED <<life_expectancy, birth_marriage_rates, people, original_person1,
                   original_person2, all_people, people_by_birth_decade,
                   people_alive_by_decade, queue, processed, person, elder_year,
                   num_children, children_birth_years, child_index, duplicates>>

\* choice D: show_by_decade calls tree.get_count_by_decade() and prints one line for each
\* decade of the result, in the order of sorted(decade_counts.keys())
show_by_decade ==
    /\ AtMenu
    /\ IF "get_count_by_decade" \in FamilyTreeAttributes
       THEN LET decade_counts == query("get_count_by_decade")
                sorted_decades == sorted(DOMAIN decade_counts)
            IN  /\ output' = [choice |-> "D",
                              lines |-> [k \in DOMAIN sorted_decades |->
                                            <<sorted_decades[k],
                                              decade_counts[sorted_decades[k]]>>]]
                /\ pc' = "menu"
       ELSE /\ output' = [choice |-> "D", lines |-> <<>>]
            /\ pc' = "AttributeError"
    /\ UNCHANGED <<life_expectancy, birth_marriage_rates, people, original_person1,
                   original_person2, all_people, people_by_birth_decade,
                   people_alive_by_decade, queue, processed, person, elder_year,
                   num_children, children_birth_years, child_index, duplicates>>

\* choice N: show_duplicates prints the duplicated names
show_duplicates ==
    /\ AtMenu
    /\ IF "find_duplicate_names" \in FamilyTreeAttributes
       THEN /\ duplicates' = query("find_duplicate_names")
            /\ output' = [choice |-> "N", lines |-> duplicates']
            /\ pc' = "menu"
       ELSE /\ duplicates' = duplicates
            /\ output' = [choice |-> "N", lines |-> <<>>]
            /\ pc' = "AttributeError"
    /\ UNCHANGED <<life_expectancy, birth_marriage_rates, people, original_person1,
                   original_person2, all_people, people_by_birth_decade,
                   people_alive_by_decade, queue, processed, person, elder_year,
                   num_children, children_birth_years, child_index>>

\* choice Q: the loop ends
Quit ==
    /\ AtMenu
    /\ output' = [choice |-> "Q", lines |-> <<>>]
    /\ pc' = "exited"
    /\ UNCHANGED <<life_expectancy, birth_marriage_rates, people, original_person1,
                   original_person2, all_people, people_by_birth_decade,
                   people_alive_by_decade, queue, processed, person, elder_year,
                   num_children, children_birth_years, child_index, duplicates>>

MainNext == Next \/ show_total \/ show_by_decade \/ show_duplicates \/ Quit

\* main: the construction of the tree, generate_tree and the menu loop
SpecMain == Init /\ [][MainNext]_vars

----------------------------------------------------------------------------
(* distribute_birth_years called on its own *)

\* the variables of a state in which no tree has been built
NoTree ==
    /\ life_expectancy = LongLives
    /\ birth_marriage_rates = BirthRates
    /\ output = NoOutput
    /\ original_person1 = None
    /\ original_person2 = None
    /\ people_by_birth_decade = <<>>
    /\ people_alive_by_decade = <<>>
    /\ queue = <<>>
    /\ processed = {}
    /\ person = None
    /\ child_index = 0

\* the birth years given to distribute_birth_years
DistributeYears == {y \in FounderYear..MaxYear : y % 5 = 0}

InitDistribute ==
    /\ NoTree
    /\ people = <<>>
    /\ all_people = <<>>
    /\ duplicates = <<>>
    /\ elder_year \in DistributeYears
    /\ num_children \in 0..MaxCount
    /\ children_birth_years = <<>>
    /\ pc = "call"

CallDistribute ==
    /\ pc = "call"
    /\ \E drawn \in (elder_year + 25)..(elder_year + 45) :
           children_birth_years' = distribute_birth_years(elder_year, num_children, drawn)
    /\ pc' = "returned"
    /\ UNCHANGED <<life_expectancy, birth_marriage_rates, output, people,
                   original_person1, original_person2, all_people,
                   people_by_birth_decade, people_alive_by_decade, queue, processed, person,
                   elder_year, num_children, child_index, duplicates>>

SpecDistribute == InitDistribute /\ [][CallDistribute]_vars

----------------------------------------------------------------------------
(* calculate_num_children called on its own *)

\* the populations given: one person, or one person and its partner
LonePerson == <<create_person(LongLives, FounderYear, "male", NoParents, 0, James, Smith)>>
Couple ==
    LET partner == create_person(LongLives, FounderYear, "female", NoParents, 0, Mary, Smith)
    IN  set_partner(set_partner(Append(LonePerson, partner), 1, 2), 2, 1)

InitNumChildren ==
    /\ life_expectancy = LongLives
    /\ \E rate \in 0..MaxRate : birth_marriage_rates = [decade \in DOMAIN BirthRates |-> rate]
    /\ people \in {LonePerson, Couple}
    /\ all_people = [i \in 1..Len(people) |-> i]
    /\ original_person1 = None
    /\ original_person2 = None
    /\ people_by_birth_decade = <<>>
    /\ people_alive_by_decade = <<>>
    /\ queue = <<>>
    /\ processed = {}
    /\ person = 1
    /\ elder_year = 0
    /\ num_children = 0
    /\ children_birth_years = <<>>
    /\ child_index = 0
    /\ duplicates = <<>>
    /\ output = NoOutput
    /\ pc = "call_children"

CallNumChildren ==
    /\ pc = "call_children"
    /\ LET year_born == people[person].year_born
       IN  \E drawn \in min_children(year_born)..max_children(year_born) :
               num_children' = calculate_num_children(year_born,
                                                      people[person].partner # None, drawn)
    /\ pc' = "returned_children"
    /\ UNCHANGED <<life_expectancy, birth_marriage_rates, output, people,
                   original_person1, original_person2, all_people,
                   people_by_birth_decade, people_alive_by_decade, queue, processed, person,
                   elder_year, children_birth_years, child_index, duplicates>>

SpecNumChildren == InitNumChildren /\ [][CallNumChildren]_vars

----------------------------------------------------------------------------
(* find_duplicate_names called on a population of given names *)

Ann == <<65, 110, 110>>
Anna == <<65, 110, 110, 97>>

\* the Person objects of the populations given to find_duplicate_names
NamedPeople ==
    {create_person(LongLives, FounderYear, "female", NoParents, 0, first_name, last_name) :
        first_name \in {Ann, Anna}, last_name \in {Jones, Smith}}

InitNames ==
    /\ NoTree
    /\ \E n \in 0..MaxNames : people \in [1..n -> NamedPeople]
    /\ all_people = [i \in 1..Len(people) |-> i]
    /\ duplicates = <<>>
    /\ elder_year = 0
    /\ num_children = 0
    /\ children_birth_years = <<>>
    /\ pc = "query"

FindDuplicateNames ==
    /\ pc = "query"
    /\ duplicates' = find_duplicate_names(people, all_people)
    /\ pc' = "queried"
    /\ UNCHANGED <<life_expectancy, birth_marriage_rates, output, people,
                   original_person1, original_person2, all_people,
                   people_by_birth_decade, people_alive_by_decade, queue, processed, person,
                   elder_year, num_children, children_birth_years, child_index>>

SpecNames == InitNames /\ [][FindDuplicateNames]_vars

----------------------------------------------------------------------------
(* Properties *)

\* the Person objects
Objects == 1..Len(people)

\* the individuals of the population
Population == {all_people[i] : i \in DOMAIN all_people}

\* the non-absent parents of an individual
ParentsOf(id) ==
    IF people[id].parents = NoParents THEN {}
    ELSE {people[id].parents[k] : k \in 1..2} \ {None}

\* C1, as stated: after generate_tree every individual with a parent pair is born at least
\* 25 years after each of its non-absent parents
C1_EachParent25 ==
    pc = "done" =>
        \A c \in Population : \A p \in ParentsOf(c) :
            people[c].year_born >= people[p].year_born + 25

\* C1, amended: after generate_tree every individual with a parent pair is born at least
\* 25 years after the elder of its non-absent parents, and at least 15 years after each
C1_ElderParent25 ==
    pc = "done" =>
        \A c \in Population : \A p \in ParentsOf(c) :
            /\ people[c].year_born >= people[p].year_born + 15
            /\ \E elder \in ParentsOf(c) :
                   /\ \A q \in ParentsOf(c) : people[elder].year_born <= people[q].year_born
                   /\ people[c].year_born >= people[elder].year_born + 25

\* generate_tree has returned and a child of two parents is born 15 years after one of them
C1_Witness ==
    /\ pc = "done"
    /\ \E c \in Population :
           /\ Cardinality(ParentsOf(c)) = 2
           /\ \E p \in ParentsOf(c) : people[c].year_born = people[p].year_born + 15

PartnerSymmetric ==
    \A a, b \in Objects : (people[a].partner = b) <=> (people[b].partner = a)

PartnerKept ==
    \A a \in Objects : people[a].partner # None => people'[a].partner = people[a].partner

\* C2: in every state A.partner is B if and only if B.partner is A, and a partner
\* reference that is set is never changed or cleared by a later step
C2_PartnerSymmetricAndKept == []PartnerSymmetric /\ [][PartnerKept]_vars

\* a partner was created for a child, and generate_tree has returned
C2_Witness ==
    /\ pc = "done"
    /\ \E a \in Objects : people[a].parents # NoParents /\ people[a].partner # None

\* C3, as stated: every individual of the population has year_died > year_born, where
\* year_died is year_born + floor(life expectancy) + an offset in [-10, 10]
C3_DiedAfterBorn ==
    \A id \in Population :
        LET born == people[id].year_born
            died == people[id].year_died
        IN  /\ died - born - (life_expectancy[born] \div 10) \in -10..10
            /\ died > born

RECURSIVE AncestorsFrom(_, _)
AncestorsFrom(ids, steps) ==
    IF steps = 0 THEN ids
    ELSE AncestorsFrom(ids \cup UNION {ParentsOf(i) : i \in ids}, steps - 1)

\* the individuals reachable from id by following parent references
Ancestors(id) == AncestorsFrom(ParentsOf(id), Len(people))

\* C4: in every state no individual is reachable from itself by following parent
\* references, and every child is born strictly after each of its non-absent parents
C4_Acyclic ==
    \A id \in Objects :
        /\ id \notin Ancestors(id)
        /\ \A p \in ParentsOf(id) : people[id].year_born > people[p].year_born

\* an individual has a grandparent
C4_Witness == \E c \in Objects : \E p \in ParentsOf(c) : ParentsOf(p) # {}

\* decade is the key of the decade in which year lies
InDecade(decade, year) ==
    LET n == ParseInt(SubSeq(decade, 1, Len(decade) - 1))
    IN  decade[Len(decade)] = 115 /\ n % 10 = 0 /\ n <= year /\ year <= n + 9

RECURSIVE SumOver(_, _)
SumOver(counts, keys) ==
    IF keys = {} THEN 0
    ELSE LET k == CHOOSE k \in keys : TRUE IN counts[k] + SumOver(counts, keys \ {k})

\* C5: in every state each individual of the population is once in the bucket of its own
\* birth decade and in no other bucket, the per-decade counts add up to get_total_count,
\* which is the length of all_people, and the decades counted are exactly those in which
\* an individual was born
C5_DecadeBuckets ==
    /\ \A id \in Population : \A decade \in DOMAIN people_by_birth_decade :
           Cardinality({k \in DOMAIN people_by_birth_decade[decade] :
                            people_by_birth_decade[decade][k] = id})
               = IF InDecade(decade, people[id].year_born) THEN 1 ELSE 0
    /\ \A id \in Population : \E decade \in DOMAIN people_by_birth_decade :
           InDecade(decade, people[id].year_born)
    /\ SumOver(get_birth_count_by_decade, DOMAIN get_birth_count_by_decade) = get_total_count
    /\ get_total_count = Len(all_people)
    /\ \A decade \in DOMAIN get_birth_count_by_decade :
           /\ get_birth_count_by_decade[decade] > 0
           /\ \E id \in Population : InDecade(decade, people[id].year_born)

\* add_person has run during generate_tree and people were born in three decades
C5_Witness ==
    /\ pc \in {"children", "loop"}
    /\ Len(all_people) >= 5
    /\ Cardinality(DOMAIN people_by_birth_decade) >= 3

\* a < b in lexicographic order of the character codes
StrLess(a, b) ==
    \E k \in 1..Len(b) :
        /\ k <= Len(a) + 1
        /\ \A j \in 1..(k - 1) : a[j] = b[j]
        /\ (k = Len(a) + 1 \/ a[k] < b[k])

\* how many individuals of the population have this full name
NameCount(name) ==
    Cardinality({i \in DOMAIN all_people :
                    people[all_people[i]].first_name \o <<32>> \o people[all_people[i]].last_name
                        = name})

\* all_people in every order of insertion
InsertionOrders ==
    {[i \in DOMAIN all_people |-> all_people[f[i]]] :
        f \in {g \in [DOMAIN all_people -> DOMAIN all_people] :
                  \A i, j \in DOMAIN all_people : g[i] = g[j] => i = j}}

\* C6: the list find_duplicate_names returns is strictly ascending, holds exactly the full
\* names that at least two individuals have, and is the same for every insertion order
C6_DuplicateNames ==
    pc = "queried" =>
        /\ \A k \in 1..(Len(duplicates) - 1) : StrLess(duplicates[k], duplicates[k + 1])
        /\ \A k \in DOMAIN duplicates : NameCount(duplicates[k]) >= 2
        /\ \A id \in Population :
               NameCount(get_full_name(people[id])) >= 2 =>
                   \E k \in DOMAIN duplicates : duplicates[k] = get_full_name(people[id])
        /\ \A order \in InsertionOrders : find_duplicate_names(people, order) = duplicates

\* find_duplicate_names has returned two names
C6_Witness == pc = "queried" /\ Len(duplicates) = 2

\* C7: distribute_birth_years(y, n) is empty for n = 0, one year of [y+25, y+45] for n = 1,
\* and for n >= 2 the n years y + 25 + floor(20*i/(n-1)), from y+25 to y+45, non-decreasing;
\* distribute_birth_years(1950, 4) is [1975, 1981, 1988, 1995]
C7_DistributeBirthYears ==
    pc = "returned" =>
        LET y == elder_year
            n == num_children
            r == children_birth_years
        IN  /\ n = 0 => r = <<>>
            /\ n = 1 => Len(r) = 1 /\ r[1] >= y + 25 /\ r[1] <= y + 45
            /\ n >= 2 =>
                   /\ Len(r) = n
                   /\ \A i \in 0..(n - 1) : r[i + 1] = y + 25 + ((20 * i) \div (n - 1))
                   /\ r[1] = y + 25
                   /\ r[n] = y + 45
                   /\ \A i \in 1..(n - 1) : r[i] <= r[i + 1]
            /\ (y = 1950 /\ n = 4) => r = <<1975, 1981, 1988, 1995>>

\* distribute_birth_years(1950, 4) has returned
C7_Witness ==
    /\ pc = "returned"
    /\ elder_year = 1950
    /\ num_children = 4
    /\ Len(children_birth_years) = 4

\* C8: in every state the two founders are the first two individuals of the population,
\* both born in 1950, each the other's partner, without parents, and named
\* "Desmond Jones" (male) and "Molly Smith" (female)
C8_Founders ==
    /\ Len(all_people) >= 2
    /\ all_people[1] = original_person1
    /\ all_people[2] = original_person2
    /\ original_person1 # original_person2
    /\ people[original_person1].year_born = 1950
    /\ people[original_person2].year_born = 1950
    /\ people[original_person1].partner = original_person2
    /\ people[original_person2].partner = original_person1
    /\ people[original_person1].parents = NoParents
    /\ people[original_person2].parents = NoParents
    /\ people[original_person1].first_name = Desmond
    /\ people[original_person1].last_name = Jones
    /\ people[original_person1].gender = "male"
    /\ people[original_person2].first_name = Molly
    /\ people[original_person2].last_name = Smith
    /\ people[original_person2].gender = "female"

\* generate_tree has returned and the founders have descendants
C8_Witness == pc = "done" /\ Len(people[original_person1].children) >= 2

\* the largest number of children calculate_num_children can return for the birth rates
\* of the factory
MostChildren ==
    CHOOSE m \in 0..20 :
        /\ \A decade \in DOMAIN birth_marriage_rates : Ceil(birth_rate(decade) + 15) <= m
        /\ \E decade \in DOMAIN birth_marriage_rates : Ceil(birth_rate(decade) + 15) = m

RECURSIVE StepsFor(_, _)
\* a bound on the steps generate_tree takes for a queue entry born in year_born and all its
\* descendants: one step to expand it, then for each of at most most children, born at
\* least 15 years later, one step to create or skip the child and the steps for it
StepsFor(year_born, most) ==
    IF year_born > 2120 THEN 0
    ELSE 1 + most * (1 + StepsFor(year_born + 15, most))

RECURSIVE StepsForAll(_, _)
StepsForAll(birth_years, most) ==
    IF birth_years = <<>> THEN 0
    ELSE 1 + StepsFor(Head(birth_years), most) + StepsForAll(Tail(birth_years), most)

\* a bound on the steps left until generate_tree returns
StepsLeft ==
    LET most == MostChildren
    IN  CASE pc = "constructed" -> 2 + StepsFor(people[original_person1].year_born, most)
          [] pc = "done" -> 0
          [] OTHER ->
                1 + StepsForAll([k \in DOMAIN queue |-> people[queue[k]].year_born], most)
                  - Len(queue)
                  + (IF pc = "children"
                     THEN StepsForAll(SubSeq(children_birth_years, child_index,
                                             Len(children_birth_years)), most)
                     ELSE 0)

\* a step of Next is possible; Finish, which only assigns, is possible when its guard holds
HasNextStep ==
    \/ ENABLED (StartGenerate \/ Expand \/ SkipChild \/ CreateChild)
    \/ (pc = "loop" /\ queue = <<>>)

\* C9: generate_tree terminates: every step lowers a bound on the steps left, which is
\* never negative, and the program has a next step until the queue is empty and
\* generate_tree has returned
C9_Terminates ==
    /\ [][StepsLeft' < StepsLeft]_vars
    /\ [](StepsLeft >= 0)
    /\ [](pc # "done" => HasNextStep)
    /\ [](pc = "done" => queue = <<>>)

\* generate_tree has returned after expanding four generations
C9_Witness ==
    /\ pc = "done"
    /\ queue = <<>>
    /\ \E c \in Objects : \E p \in ParentsOf(c) : \E g \in ParentsOf(p) : ParentsOf(g) # {}

\* no Person object, individual of the population or queue entry is born after 2120
WithinHorizon ==
    /\ \A id \in Objects : people[id].year_born <= 2120
    /\ \A id \in Population : id \in Objects
    /\ \A k \in DOMAIN queue : queue[k] \in Objects

\* create_partner returns None and changes nothing when the year it draws is after 2120
PartnerBeyondHorizonAbsent ==
    \A id \in Population : \A p \in PartnerDraws :
        people[id].year_born + p.offset > 2120 =>
            create_partner(life_expectancy, people, id, p.offset, p.gender, p.variation,
                           James, p.last_name)
                = [heap |-> people, partner |-> None]

\* an iteration of the for loop with a birth year after 2120 adds nobody and goes on to the
\* next birth year; one with a birth year up to 2120 adds the child to the population and
\* to the queue
ChildSkippedOrKept ==
    pc = "children" =>
        IF children_birth_years[child_index] > 2120
        THEN /\ people' = people
             /\ all_people' = all_people
             /\ queue' = queue
             /\ child_index < Len(children_birth_years) =>
                    pc' = "children" /\ child_index' = child_index + 1
        ELSE /\ Len(people') > Len(people)
             /\ all_people'[Len(all_people) + 1] = Len(people) + 1
             /\ queue' = Append(queue, Len(people) + 1)
             /\ people'[Len(people) + 1].year_born = children_birth_years[child_index]

\* C10: nobody born after 2120 is ever added to the population or to the queue: a child
\* with such a birth year is skipped while the remaining birth years are still considered,
\* and create_partner returns None for such a year, the child staying in the population
C10_Horizon == []WithinHorizon /\ []PartnerBeyondHorizonAbsent /\ [][ChildSkippedOrKept]_vars

\* generate_tree has returned, a child born after 2110 is in the population without a
\* partner, and the last birth years computed were beyond 2120, the first of them too
C10_Witness ==
    /\ pc = "done"
    /\ \E id \in Population :
           people[id].year_born > 2110 /\ people[id].partner = None
    /\ Len(children_birth_years) >= 2
    /\ children_birth_years[1] > 2120

----------------------------------------------------------------------------
(* The queue of generate_tree *)

\* the individuals in the queue
Queued == {queue[k] : k \in DOMAIN queue}

\* the individual was created as a child in generate_tree
IsChild(id) == people[id].parents # NoParents

\* the individual was created by create_partner as the partner of a child
IsSpouse(id) ==
    people[id].parents = NoParents /\ id \notin {original_person1, original_person2}

\* C11, as stated: an iteration of the for loop that creates a child appends to the queue
\* every individual it creates, the child and the spouse created for the child
C11_ChildAndSpouseEnqueued ==
    [][pc = "children" =>
          \A id \in (Len(people) + 1)..Len(people') : \E k \in DOMAIN queue' : queue'[k] = id]_vars

\* C11: an iteration of the for loop that creates a child appends the child, and only the
\* child, at the back of the queue; every child is in the queue until it is expanded, and
\* has been expanded when generate_tree returns; a spouse created for a child is never in
\* the queue and never expanded
C11_ChildEnqueuedSpouseNot ==
    /\ [][pc = "children" /\ Len(people') > Len(people) =>
              /\ people'[Len(people) + 1].parents # NoParents
              /\ queue' = Append(queue, Len(people) + 1)]_vars
    /\ [](\A id \in Objects : IsChild(id) => id \in Queued \cup processed)
    /\ [](\A id \in Objects : IsSpouse(id) => id \notin Queued \cup processed)
    /\ [](pc = "done" => \A id \in Objects : IsChild(id) => id \in processed)

\* generate_tree has returned, and a child for which a spouse was created has been
\* expanded and has a child of its own
C11_Witness ==
    /\ pc = "done"
    /\ \E id \in processed :
           /\ IsChild(id)
           /\ people[id].partner # None
           /\ IsSpouse(people[id].partner)
           /\ people[id].children # <<>>

\* a step of the while loop that takes an individual from the queue: one that is in
\* processed is discarded and nothing else changes; one that is not is marked processed,
\* and neither it nor its partner has children or has been expanded before
DequeuedOnce ==
    pc = "loop" /\ queue # <<>> =>
        IF Head(queue) \in processed
        THEN /\ people' = people
             /\ all_people' = all_people
             /\ processed' = processed
             /\ pc' = "loop"
        ELSE /\ processed' = processed \cup {Head(queue)}
             /\ people[Head(queue)].children = <<>>
             /\ people[Head(queue)].partner # None =>
                    /\ people[people[Head(queue)].partner].children = <<>>
                    /\ people[Head(queue)].partner \notin processed

\* a Person object is created only in the for loop, and the child created there is a child
\* of the individual being expanded, which is marked processed
ChildOfExpanded ==
    Len(people') > Len(people) =>
        /\ pc = "children"
        /\ person \in processed
        /\ people'[Len(people) + 1].parents[1] = person

\* no individual is twice in the queue, and none in the queue has been expanded
QueuedOnce ==
    /\ \A j, k \in DOMAIN queue : queue[j] = queue[k] => j = k
    /\ Queued \cap processed = {}

\* the children of an individual all have the same parent pair
OneParentPair ==
    \A id \in Objects : \A j, k \in DOMAIN people[id].children :
        people[people[id].children[j]].parents = people[people[id].children[k]].parents

\* C12: during generate_tree an individual taken from the queue is expanded for children
\* once: it is in the queue once and not after its expansion, an individual taken from the
\* queue while in processed is discarded without creating children, children are created
\* only for the individual being expanded, and at the start of an expansion neither the
\* individual nor its partner has children, so the children of a couple all come from one
\* expansion step
C12_ExpandedOnce ==
    /\ [][DequeuedOnce]_vars
    /\ [][ChildOfExpanded]_vars
    /\ []QueuedOnce
    /\ []OneParentPair

\* generate_tree has returned; a child and the spouse created for it have two children,
\* the child was expanded and the spouse was not
C12_Witness ==
    /\ pc = "done"
    /\ \E id \in processed :
           /\ IsChild(id)
           /\ people[id].partner # None
           /\ people[id].partner \notin processed
           /\ Len(people[id].children) >= 2
           /\ people[people[id].partner].children = people[id].children

RECURSIVE Generation(_)
\* the distance of an individual from the founders along the links to the parent that
\* was expanded to create it
Generation(id) ==
    IF people[id].parents = NoParents THEN 0 ELSE 1 + Generation(people[id].parents[1])

\* a step that takes an individual from the queue takes the one that was created, and so
\* appended, first, and after every individual expanded before; its parents were expanded
\* before it, no individual expanded before is of a later generation, and none still in
\* the queue is of an earlier generation
DequeuedInOrder ==
    pc = "loop" /\ queue # <<>> =>
        /\ person' \in Queued
        /\ person' \notin {queue'[k] : k \in DOMAIN queue'}
        /\ \A id \in Queued : person' <= id
        /\ \A id \in processed : id < person'
        /\ IsChild(person') => people[person'].parents[1] \in processed
        /\ \A id \in processed : Generation(id) <= Generation(person')
        /\ \A id \in Queued : Generation(person') <= Generation(id)

\* the individuals wait in the queue in the order of their creation
QueueInOrder == \A j, k \in DOMAIN queue : j < k => queue[j] < queue[k]

\* no individual that has been expanded is of a later generation than one in the queue
GenerationsInOrder ==
    \A p \in processed : \A q \in Queued : Generation(p) <= Generation(q)

\* C13: generate_tree takes the individuals out of the queue in the order in which they
\* were appended; no individual is expanded before the parent that created it, and every
\* individual of a generation is expanded before any individual of the next generation
C13_BreadthFirst == [][DequeuedInOrder]_vars /\ []QueueInOrder /\ []GenerationsInOrder

\* generate_tree has returned after expanding two children of the founders and then a
\* grandchild
C13_Witness ==
    /\ pc = "done"
    /\ \E x \in processed : \E y \in processed : \E z \in processed :
           /\ x < y /\ y < z
           /\ Generation(x) = 1 /\ Generation(y) = 1 /\ Generation(z) = 2

----------------------------------------------------------------------------
(* The number of children *)

\* c is the ceiling of a value given in tenths
IsCeil(c, tenths) == 10 * (c - 1) < tenths /\ tenths <= 10 * c

\* lo = max(0, ceil(b - 1.5)) for a birth rate b given in tenths
Lo(b) == CHOOSE lo \in 0..(MaxRate + 1) :
             \E c \in -2..(MaxRate + 1) : IsCeil(c, b - 15) /\ lo = (IF c < 0 THEN 0 ELSE c)

\* hi = ceil(b + 1.5) for a birth rate b given in tenths
Hi(b) == CHOOSE hi \in 0..(MaxRate + 1) : IsCeil(hi, b + 15)

\* C14: for the birth rate b of the person's decade, calculate_num_children draws between
\* lo = max(0, ceil(b - 1.5)) and hi = ceil(b + 1.5); with a partner it returns the drawn
\* count, without one the drawn count minus 1 floored at 0; the count returned lies in
\* lo..hi with a partner and in max(0, lo - 1)..max(0, hi - 1) without, and is never negative
C14_NumChildren ==
    pc \in {"call_children", "returned_children"} =>
        LET year_born == people[person].year_born
            has_partner == people[person].partner # None
            b == birth_marriage_rates[get_decade_string(year_born)]
        IN  /\ min_children(year_born) = Lo(b)
            /\ max_children(year_born) = Hi(b)
            /\ \A drawn \in Lo(b)..Hi(b) :
                   calculate_num_children(year_born, has_partner, drawn)
                       = IF has_partner THEN drawn
                         ELSE IF drawn >= 1 THEN drawn - 1 ELSE 0
            /\ pc = "returned_children" =>
                   /\ num_children >= 0
                   /\ has_partner => Lo(b) <= num_children /\ num_children <= Hi(b)
                   /\ ~has_partner =>
                          /\ (IF Lo(b) >= 1 THEN Lo(b) - 1 ELSE 0) <= num_children
                          /\ num_children <= (IF Hi(b) >= 1 THEN Hi(b) - 1 ELSE 0)

\* calculate_num_children has returned 0 for a person without a partner in a decade of
\* birth rate 1.4, where lo = 0 and hi = 3
C14_Witness ==
    /\ pc = "returned_children"
    /\ people[person].partner = None
    /\ birth_marriage_rates[get_decade_string(people[person].year_born)] = 14
    /\ min_children(people[person].year_born) = 0
    /\ max_children(people[person].year_born) = 3
    /\ num_children = 0

----------------------------------------------------------------------------
(* Parent and child links *)

\* the number of times child is in the child collection of p
TimesChildOf(p, child) ==
    Cardinality({k \in DOMAIN people[p].children : people[p].children[k] = child})

\* C15: at every boundary of a loop iteration of generate_tree an individual is in the
\* child collection of p, once, exactly when p is in one of the two slots of its parent
\* pair, and the two parents of an individual whose parent pair has both slots filled are
\* each other's partner
C15_LinksAgree ==
    pc \in {"constructed", "loop", "children", "done"} =>
        \A child \in Objects :
            /\ \A p \in Objects :
                   TimesChildOf(p, child) = IF p \in ParentsOf(child) THEN 1 ELSE 0
            /\ Cardinality(ParentsOf(child)) = 2 =>
                   /\ people[people[child].parents[1]].partner = people[child].parents[2]
                   /\ people[people[child].parents[2]].partner = people[child].parents[1]

\* the while loop is at the start of an iteration; one individual has both parents, and
\* another has a parent pair whose second slot is absent
C15_Witness ==
    /\ pc = "loop"
    /\ \E child \in Objects : Cardinality(ParentsOf(child)) = 2
    /\ \E child \in Objects :
           /\ people[child].parents # NoParents
           /\ people[child].parents[2] = None
           /\ TimesChildOf(people[child].parents[1], child) = 1

----------------------------------------------------------------------------
(* The people alive in each decade *)

\* the first years of the decades from the 1940s to the 2210s
DecadeStarts == {10 * n : n \in 194..221}

\* the key of the decade that starts in year n
DecadeKey(n) == Digits(n) \o <<115>>

\* the bucket of the people alive in the decade that starts in year n
AliveIn(n) ==
    IF DecadeKey(n) \in DOMAIN people_alive_by_decade
    THEN people_alive_by_decade[DecadeKey(n)]
    ELSE <<>>

\* the first year of the decade of a year
DecadeStart(year) == year - (year % 10)

\* C16: once generate_tree has returned, every individual of the population is once in the
\* bucket of each decade from its birth decade to its death decade and in no other bucket,
\* the buckets hold nobody else, and get_alive_count_by_decade gives the size of each
\* bucket; until the queue has drained and generate_tree returns the index is empty
C16_AliveByDecade ==
    /\ pc \in {"constructed", "loop", "children"} => people_alive_by_decade = <<>>
    /\ pc = "done" =>
           /\ DOMAIN people_alive_by_decade \subseteq {DecadeKey(n) : n \in DecadeStarts}
           /\ \A n \in DecadeStarts :
                  LET bucket == AliveIn(n)
                  IN  /\ \A k \in DOMAIN bucket : bucket[k] \in Population
                      /\ \A id \in Population :
                             Cardinality({k \in DOMAIN bucket : bucket[k] = id})
                                 = IF /\ DecadeStart(people[id].year_born) <= n
                                      /\ n <= DecadeStart(people[id].year_died)
                                   THEN 1 ELSE 0
                      /\ DecadeKey(n) \in DOMAIN people_alive_by_decade =>
                             get_alive_count_by_decade[DecadeKey(n)] = Len(bucket)
           /\ DOMAIN get_alive_count_by_decade = DOMAIN people_alive_by_decade

\* generate_tree has returned; a founder is registered in the nine decades from the 1950s
\* to the 2030s, and four people are registered in the 2000s
C16_Witness ==
    /\ pc = "done"
    /\ people[original_person1].year_died = 2030
    /\ \A n \in {1950, 1990, 2030} : \E k \in DOMAIN AliveIn(n) : AliveIn(n)[k] = original_person1
    /\ AliveIn(2040) = <<>> \/ \A k \in DOMAIN AliveIn(2040) : AliveIn(2040)[k] # original_person1
    /\ Len(AliveIn(2000)) >= 4

----------------------------------------------------------------------------
(* The menu of main *)

\* the lines choice D is to print: the number of people born in each birth decade of the
\* tree, in chronological order of the decades
BirthCountLines ==
    LET starts == {n \in DecadeStarts : DecadeKey(n) \in DOMAIN people_by_birth_decade}
        nth(k) == CHOOSE n \in starts : Cardinality({m \in starts : m < n}) = k - 1
    IN  [k \in 1..Cardinality(starts) |->
            <<DecadeKey(nth(k)), Len(people_by_birth_decade[DecadeKey(nth(k))])>>]

\* a choice at the menu: T, D and N print their lines and return to the menu, Q ends the loop
ChoiceServed ==
    AtMenu =>
        /\ output'.choice \in {"T", "D", "N", "Q"}
        /\ output'.choice = "Q" <=> pc' = "exited"
        /\ output'.choice # "Q" => pc' = "menu"
        /\ output'.choice = "T" => output'.lines = <<Len(all_people)>>
        /\ output'.choice = "D" => output'.lines = BirthCountLines
        /\ output'.choice = "N" => output'.lines = find_duplicate_names(people, all_people)

\* C17: in the menu loop after generate_tree each of the choices T, D and N runs its query
\* and returns to the menu without error, only Q ends the loop, and choice D prints the
\* number of people born in each birth decade of the tree in chronological order
C17_MenuChoices == [](pc # "AttributeError") /\ [][ChoiceServed]_vars

====
